---- MODULE Spec2Model ----
(***************************************************************************)
(* Model of the autoguix orchestrator (AutomationCore), its synchronous    *)
(* bridge (_run) and the macOS backend (MacOSBackend).                     *)
(*                                                                         *)
(* The specifications share one set of variables:                          *)
(*   Spec            the orchestrator: init, cleanup and the thirteen      *)
(*                   delegating methods, each one atomic step              *)
(*   SpecBridge      _run, step by step: the calling thread, the worker    *)
(*                   thread, the event loops and the Future                *)
(*   SpecBridgeFair  SpecBridge with weak fairness of the bridge's steps   *)
(*   SpecKeys        one MacOSBackend driven directly: initialize,         *)
(*                   cleanup, key_down, key_up, press_key, hotkey,         *)
(*                   type_text and the events they post                    *)
(*   SpecMouse       the same backend: get_mouse_position, move_mouse,     *)
(*                   click, scroll                                         *)
(*   SpecLocate      the same backend: get_screen_size, take_screenshot,   *)
(*                   locate_on_screen, locate_all_on_screen and            *)
(*                   locateCenterOnScreen over them, for every match       *)
(*                   matrix of the bounded shapes                          *)
(*   SpecBackend     the same backend with all its operations              *)
(*                                                                         *)
(* The orchestrator holds a BackendBase. MacOSBackend.cleanup itself is    *)
(* two assignments; what an implementation's cleanup may do beyond that    *)
(* (raise, before or after it released its own state) is an input of the   *)
(* cleanup action, see CleanupFaults.                                      *)
(*                                                                         *)
(* A backend call is one step. What it posts with CGEventPost and where it *)
(* suspends in asyncio.sleep is kept, in order, in posted. Floats are      *)
(* computed as Python computes them: move_mouse's arithmetic in IEEE 754   *)
(* binary64, the comparison of a float32 match matrix with a confidence in *)
(* float32.                                                                *)
(***************************************************************************)
EXTENDS Integers, Sequences, FiniteSets, TLC

VARIABLES
    core_backend,      \* AutomationCore._backend: 0 is None, else a backend id
    core_initialized,  \* AutomationCore._initialized
    created,           \* number of MacOSBackend objects constructed so far
    be_initialized,    \* MacOSBackend._initialized, per constructed backend
    be_cg,             \* MacOSBackend._cg is not None, per constructed backend
    calls,             \* backend coroutines run by the last orchestrator call
    last,              \* the last orchestrator call: op, args, pre-state, result
    pc,                \* _run: where the calling thread is
    callerLoop,        \* _run: an event loop is running on the calling thread
    work,              \* _run: what the coroutine does when it is run
    worker,            \* _run: the pool's worker thread
    loopsOpen,         \* _run: event loops created by this call and not closed
    ranOn,             \* _run: the loops the coroutine was run on, in order
    future,            \* _run: the Future pool.submit returned
    outcome,           \* _run: what the call gave its caller
    posted,            \* backend: the OS events the last backend call posted
    blast,             \* backend: the last call made on the backend directly
    seqBefore,         \* backend: the calls key_down(k), key_up(k) made right
                       \* before the last call on the same key, see SeqBefore
    scores             \* what matchTemplate gives for the screen and the
                       \* template: rows of scores, each score a float32

coreVars == <<core_backend, core_initialized, created, be_initialized, be_cg,
              calls, last>>

bridgeVars == <<pc, callerLoop, work, worker, loopsOpen, ranOn, future, outcome>>

keyVars == <<posted, blast, seqBefore, scores>>

vars == <<coreVars, bridgeVars, keyVars>>

\* ---------------------------------------------------------------- bounds
MaxBackends == 3
MaxKeys == 3          \* longest hotkey key list
MaxText == 3          \* longest text given to type_text
MaxRows == 2          \* most rows of a match matrix

\* ---------------------------------------------------------------- values
NoneV == <<>>
Some(v) == <<v>>

Return(v) == [kind |-> "return", val |-> v, exc |-> <<>>]
Raise(type, msg) == [kind |-> "raise", val |-> <<>>, exc |-> <<type, msg>>]

BackendIds == 1..MaxBackends

\* ---------------------------------------------------------------- bridge
\* concurrent.futures.Future as used by pool.submit(...).result(): the worker
\* stores the callable's result or exception, result() returns or re-raises it.
PendingFuture == [state |-> "PENDING", result |-> <<>>, exception |-> <<>>]

FutureSet(o) ==
    IF o.kind = "raise"
    THEN [state |-> "FINISHED", result |-> <<>>, exception |-> o.exc]
    ELSE [state |-> "FINISHED", result |-> o.val, exception |-> <<>>]

\* A result() that wraps the worker's exception in one of its own.
FutureResult_Wrapped(fut) ==
    IF fut.exception # <<>>
    THEN [kind |-> "raise", val |-> <<>>,
          exc |-> <<"RuntimeError", "worker failed">>]
    ELSE [kind |-> "return", val |-> fut.result, exc |-> <<>>]

FutureResult(fut) ==
    IF fut.exception # <<>>
    THEN [kind |-> "raise", val |-> <<>>, exc |-> fut.exception]
    ELSE [kind |-> "return", val |-> fut.result, exc |-> <<>>]

\* asyncio.run refuses to start on a thread whose event loop is running.
AsyncioRunRefused ==
    Raise("RuntimeError",
          "asyncio.run() cannot be called from a running event loop")

\* asyncio.run(coro) on a thread: a fresh loop runs the coroutine to
\* completion; its return value is returned, its exception is raised.
AsyncioRun(coro, threadLoopRunning) ==
    IF threadLoopRunning THEN AsyncioRunRefused
    ELSE IF coro.kind = "raise" THEN Raise(coro.exc[1], coro.exc[2])
    ELSE Return(coro.val)

\* A bridge that never takes the worker-thread branch.
UseWorkerThread_Never(loopRunning) == FALSE

\* _run: "if loop and loop.is_running()", where loop is what
\* asyncio.get_running_loop() gave, or None when it raised RuntimeError.
UseWorkerThread(loopRunning) ==
    LET loop == IF loopRunning THEN "running" ELSE "None"
    IN loop # "None" /\ loop = "running"

\* _run(coro) as one step: the outcome the caller sees.
RunSync(coro, loopRunning) ==
    IF UseWorkerThread(loopRunning)
    THEN FutureResult(FutureSet(AsyncioRun(coro, FALSE)))
    ELSE AsyncioRun(coro, loopRunning)

\* ---------------------------------------------------------------- backend
NotInitializedMsg == "AutoGUI-X is not initialized. Call autoguix.init() first."

\* A guard that looks at the handle only.
EnsureInitialized_HandleOnly(initialized, backend) == backend # 0

\* AutomationCore._ensure_initialized: TRUE when it returns the backend,
\* FALSE when it raises RuntimeError.
EnsureInitialized(initialized, backend) ==
    ~(~initialized \/ backend = 0)

StateError == Raise("RuntimeError", NotInitializedMsg)

\* MacOSBackend._ensure_ready
EnsureReady(b) == ~(~be_initialized[b] \/ ~be_cg[b])

Platforms == {"darwin", "linux", "win32"}

PlatformError(platform) ==
    Raise("OSError",
          IF platform = "linux"
          THEN "AutoGUI-X currently only supports macOS, got platform='linux'"
          ELSE "AutoGUI-X currently only supports macOS, got platform='win32'")

\* MacOSBackend.initialize: the Quartz import either succeeds or raises.
InitializeOutcome(quartzMissing) ==
    IF quartzMissing
    THEN Raise("ImportError", "PyObjC is required on macOS")
    ELSE Return(NoneV)

\* What a backend's cleanup coroutine can do: complete, or raise before or
\* after it has released its own state.
CleanupFaults == {"ok", "raise_before", "raise_after"}

CleanupOutcome(fault) ==
    IF fault = "ok" THEN Return(NoneV)
    ELSE Raise("RuntimeError", "cleanup failed")

CleanupClears(fault) == fault \in {"ok", "raise_after"}

\* One backend coroutine run through the bridge: the backend object, the
\* method, its arguments and what the coroutine returned or raised.
Call(b, op, args, res) == [b |-> b, op |-> op, args |-> args, res |-> res]

Snapshot == [backend |-> core_backend, initialized |-> core_initialized,
             created |-> created]

Record(op, args, res) ==
    [op |-> op, args |-> args, res |-> res, pre |-> Snapshot]

\* ---------------------------------------------------------------- lifecycle
\* An init that never takes the early return.
InitIsNoOp_Never == FALSE

\* AutomationCore.init, "if self._initialized: return"
InitIsNoOp == core_initialized

\* What can be missing when init() imports: nothing, the backend module's
\* own dependencies (the import inside init fails), or Quartz (the import
\* inside MacOSBackend.initialize fails).
ImportFaults == {"none", "backend_module", "quartz"}

BackendImportError == Raise("ImportError", "No module named 'numpy'")

\* AutomationCore.init
CoreInit(platform, importFault, loopRunning) ==
    LET quartzMissing == (importFault = "quartz") IN
    IF InitIsNoOp
    THEN /\ last' = Record("init", <<>>, Return(NoneV))
         /\ calls' = <<>>
         /\ UNCHANGED <<core_backend, core_initialized, created,
                        be_initialized, be_cg, bridgeVars, keyVars>>
    ELSE IF platform # "darwin"
    THEN /\ last' = Record("init", <<>>, PlatformError(platform))
         /\ calls' = <<>>
         /\ UNCHANGED <<core_backend, core_initialized, created,
                        be_initialized, be_cg, bridgeVars, keyVars>>
    ELSE IF importFault = "backend_module"
    THEN /\ last' = Record("init", <<>>, BackendImportError)
         /\ calls' = <<>>
         /\ UNCHANGED <<core_backend, core_initialized, created,
                        be_initialized, be_cg, bridgeVars, keyVars>>
    ELSE /\ created < MaxBackends
         /\ LET b == created + 1
                res == RunSync(InitializeOutcome(quartzMissing), loopRunning)
            IN /\ created' = b
               /\ core_backend' = b
               /\ calls' = <<Call(b, "initialize", <<>>,
                                   InitializeOutcome(quartzMissing))>>
               /\ be_cg' = [be_cg EXCEPT ![b] = ~quartzMissing]
               /\ be_initialized' = [be_initialized EXCEPT ![b] = ~quartzMissing]
               /\ core_initialized' = (res.kind = "return")
               /\ last' = Record("init", <<>>, res)
               /\ UNCHANGED <<bridgeVars, keyVars>>

\* A cleanup that drops the handle and forgets to clear the flag.
Released_KeepsFlag == [backend |-> 0, initialized |-> core_initialized]

\* AutomationCore.cleanup, its last two statements:
\*     self._backend = None; self._initialized = False
Released == [backend |-> 0, initialized |-> FALSE]

\* AutomationCore.cleanup
CoreCleanup(fault, loopRunning) ==
    IF core_backend # 0
    THEN LET b == core_backend
             res == RunSync(CleanupOutcome(fault), loopRunning)
         IN /\ calls' = <<Call(b, "cleanup", <<>>, CleanupOutcome(fault))>>
            /\ IF CleanupClears(fault)
               THEN /\ be_initialized' = [be_initialized EXCEPT ![b] = FALSE]
                    /\ be_cg' = [be_cg EXCEPT ![b] = FALSE]
               ELSE UNCHANGED <<be_initialized, be_cg>>
            /\ IF res.kind = "raise"
               THEN UNCHANGED <<core_backend, core_initialized>>
               ELSE /\ core_backend' = Released.backend
                    /\ core_initialized' = Released.initialized
            /\ last' = Record("cleanup", <<>>, res)
            /\ UNCHANGED <<created, bridgeVars, keyVars>>
    ELSE /\ core_backend' = Released.backend
         /\ core_initialized' = Released.initialized
         /\ calls' = <<>>
         /\ last' = Record("cleanup", <<>>, Return(NoneV))
         /\ UNCHANGED <<created, be_initialized, be_cg, bridgeVars, keyVars>>

\* ---------------------------------------------------------------- delegation
OpNames == {"get_screen_size", "take_screenshot", "get_mouse_position",
            "move_mouse", "click", "scroll", "press_key", "key_down",
            "key_up", "type_text", "hotkey", "locate_on_screen",
            "locate_all_on_screen"}

\* Operations whose orchestrator method has no return statement.
VoidOps == {"move_mouse", "click", "scroll", "press_key", "key_down",
            "key_up", "type_text", "hotkey"}

Coords == {10, 20}
OptCoords == {NoneV} \cup {Some(c) : c \in Coords}
Regions == {NoneV, Some(<<5, 6, 30, 40>>)}
Buttons == {"left", "right"}
KeyArgs == {"a", "command", "bogus"}
Texts == {"", "hi"}
Images == {"btn.png", "missing.png"}
Confidences == {50, 90}     \* confidence in hundredths
Modes == {"image", "object"}

\* The argument tuples a caller passes to each orchestrator operation.
ArgsOf(op) ==
    CASE op \in {"get_screen_size", "get_mouse_position"} -> {<<>>}
      [] op = "take_screenshot" -> {<<r>> : r \in Regions}
      [] op = "move_mouse" -> Coords \X Coords \X {0, 1}
      [] op = "click" -> OptCoords \X OptCoords \X Buttons \X {1, 2} \X {0, 1}
      [] op = "scroll" -> {-3, 3} \X OptCoords \X OptCoords
      [] op \in {"press_key", "key_down", "key_up"} -> {<<k>> : k \in KeyArgs}
      [] op = "type_text" -> Texts \X {0, 1}
      [] op = "hotkey" -> {<<>>} \cup {<<k>> : k \in KeyArgs}
                            \cup (KeyArgs \X KeyArgs)
      [] OTHER -> Images \X Confidences \X Regions \X Modes

\* A move_mouse that hands x and y over in the wrong order.
BackendArgs_Swapped(op, args) ==
    CASE op \in {"get_screen_size", "get_mouse_position"} -> <<>>
      [] op = "move_mouse" -> <<args[2], args[1], args[3]>>
      [] OTHER -> [i \in 1..Len(args) |-> args[i]]

\* The arguments each delegating method hands to the backend coroutine of
\* the same name, position by position.
BackendArgs(op, args) ==
    CASE op \in {"get_screen_size", "get_mouse_position"} -> <<>>
      [] op = "take_screenshot" -> <<args[1]>>
      [] op = "move_mouse" -> <<args[1], args[2], args[3]>>
      [] op = "click" -> <<args[1], args[2], args[3], args[4], args[5]>>
      [] op = "scroll" -> <<args[1], args[2], args[3]>>
      [] op \in {"press_key", "key_down", "key_up"} -> <<args[1]>>
      [] op = "type_text" -> <<args[1], args[2]>>
      [] op = "hotkey" -> [i \in 1..Len(args) |-> args[i]]
      [] OTHER -> <<args[1], args[2], args[3], args[4]>>

\* The backend method each delegating method awaits.
BackendOp(op) == op

\* What a backend coroutine can return when it runs to completion.
ValuesOf(op) ==
    CASE op = "get_screen_size" -> {<<1920, 1080>>, <<800, 600>>}
      [] op = "get_mouse_position" -> {<<100, 200>>, <<0, 0>>}
      [] op = "take_screenshot" -> {<<1>>, <<2>>}
      [] op = "locate_on_screen" -> {NoneV, <<10, 20, 50, 50>>}
      [] op = "locate_all_on_screen" ->
            {<<>>, << <<10, 20, 50, 50>> >>,
             << <<10, 20, 50, 50>>, <<11, 20, 50, 50>> >>}
      [] OTHER -> {NoneV}

BackendNotReady == Raise("RuntimeError", "MacOSBackend not initialized")

\* What a backend coroutine can raise when the backend is ready.
ErrorsOf(op) ==
    CASE op = "take_screenshot" ->
            {Raise("RuntimeError", "Failed to capture screenshot")}
      [] op \in {"press_key", "key_down", "key_up", "hotkey"} ->
            {Raise("ValueError", "Unknown key")}
      [] op \in {"locate_on_screen", "locate_all_on_screen"} ->
            {Raise("ImportError", "OpenCV is required for image location."),
             Raise("FileNotFoundError", "Could not load template image"),
             Raise("RuntimeError", "Failed to capture screenshot")}
      [] OTHER -> {}

\* The outcomes of backend b's coroutine op: it fails in _ensure_ready while
\* the backend is not initialized (the locate operations import cv2 first).
BackendOutcomes(b, op) ==
    IF EnsureReady(b)
    THEN {Return(v) : v \in ValuesOf(op)} \cup ErrorsOf(op)
    ELSE {BackendNotReady} \cup
         (IF op \in {"locate_on_screen", "locate_all_on_screen"}
          THEN {Raise("ImportError", "OpenCV is required for image location.")}
          ELSE {})

\* What the delegating method gives back for the bridge's outcome: the
\* methods of VoidOps drop the value, the others return it; an exception
\* propagates from both.
CoreResult(op, res) ==
    IF res.kind = "return" /\ op \in VoidOps THEN Return(NoneV) ELSE res

\* One delegating method of AutomationCore:
\*     _run(self._ensure_initialized().<op>(<args>))
Delegate(op, args, loopRunning) ==
    IF ~EnsureInitialized(core_initialized, core_backend)
    THEN /\ last' = Record(op, args, StateError)
         /\ calls' = <<>>
         /\ UNCHANGED <<core_backend, core_initialized, created,
                        be_initialized, be_cg, bridgeVars, keyVars>>
    ELSE \E coro \in BackendOutcomes(core_backend, BackendOp(op)) :
         /\ calls' = <<Call(core_backend, BackendOp(op), BackendArgs(op, args),
                             coro)>>
         /\ last' = Record(op, args, CoreResult(op, RunSync(coro, loopRunning)))
         /\ UNCHANGED <<core_backend, core_initialized, created,
                        be_initialized, be_cg, bridgeVars, keyVars>>

Operation(op) == \E args \in ArgsOf(op), lr \in BOOLEAN : Delegate(op, args, lr)

get_screen_size == Operation("get_screen_size")
take_screenshot == Operation("take_screenshot")
get_mouse_position == Operation("get_mouse_position")
move_mouse == Operation("move_mouse")
click == Operation("click")
scroll == Operation("scroll")
press_key == Operation("press_key")
key_down == Operation("key_down")
key_up == Operation("key_up")
type_text == Operation("type_text")
hotkey == Operation("hotkey")
locate_on_screen == Operation("locate_on_screen")
locate_all_on_screen == Operation("locate_all_on_screen")

\* ---------------------------------------------------------------- _run, stepwise
Hang == [kind |-> "hang", val |-> <<>>, exc |-> <<>>]

\* What a unit of work can do: return a value, raise, or never finish.
Works ==
    {Return(v) : v \in {NoneV, <<100, 200>>, <<1920, 1080>>, <<10, 20, 50, 50>>}}
    \cup {Raise("ValueError", "Unknown key"),
          Raise("RuntimeError", "MacOSBackend not initialized"),
          Raise("ImportError", "PyObjC is required on macOS"),
          Raise("FileNotFoundError", "Could not load template image"),
          Raise("RuntimeError",
                "asyncio.run() cannot be called from a running event loop")}
    \cup {Hang}

NoOutcome == [kind |-> "none", val |-> <<>>, exc |-> <<>>]

BridgeIdle ==
    /\ pc = "idle"
    /\ callerLoop = FALSE
    /\ work = Return(NoneV)
    /\ worker = "none"
    /\ loopsOpen = 0
    /\ ranOn = <<>>
    /\ future = PendingFuture
    /\ outcome = NoOutcome

\* A caller enters _run(coro).
BridgeCall ==
    /\ pc \in {"idle", "done"}
    /\ \E w \in Works, lr \in BOOLEAN :
          /\ work' = w
          /\ callerLoop' = lr
    /\ pc' = "entered"
    /\ worker' = "none"
    /\ loopsOpen' = 0
    /\ ranOn' = <<>>
    /\ future' = PendingFuture
    /\ outcome' = NoOutcome
    /\ UNCHANGED <<coreVars, keyVars>>

\* try: loop = asyncio.get_running_loop() ...; if loop and loop.is_running()
BridgeBranch ==
    /\ pc = "entered"
    /\ pc' = IF UseWorkerThread(callerLoop) THEN "pool" ELSE "direct"
    /\ UNCHANGED <<coreVars, keyVars, callerLoop, work, worker, loopsOpen, ranOn, future, outcome>>

\* else: asyncio.run(coro) on the calling thread: a new loop starts the work,
\* unless a loop is already running here.
DirectStart ==
    /\ pc = "direct"
    /\ IF callerLoop
       THEN /\ pc' = "done"
            /\ outcome' = AsyncioRun(work, callerLoop)
            /\ UNCHANGED <<loopsOpen, ranOn>>
       ELSE /\ pc' = "direct_running"
            /\ loopsOpen' = loopsOpen + 1
            /\ ranOn' = Append(ranOn, "caller_fresh")
            /\ UNCHANGED outcome
    /\ UNCHANGED <<coreVars, keyVars, callerLoop, work, worker, future>>

\* The work completes; asyncio.run closes its loop and returns or raises.
DirectFinish ==
    /\ pc = "direct_running"
    /\ work.kind # "hang"
    /\ loopsOpen' = loopsOpen - 1
    /\ outcome' = AsyncioRun(work, FALSE)
    /\ pc' = "done"
    /\ UNCHANGED <<coreVars, keyVars, callerLoop, work, worker, ranOn, future>>

\* with ThreadPoolExecutor(max_workers=1) as pool:
\*     pool.submit(asyncio.run, coro).result()
\* submit starts the worker thread; the caller blocks in result().
PoolSubmit ==
    /\ pc = "pool"
    /\ worker' = "started"
    /\ future' = PendingFuture
    /\ pc' = "blocked"
    /\ UNCHANGED <<coreVars, keyVars, callerLoop, work, loopsOpen, ranOn, outcome>>

\* The worker thread calls asyncio.run(coro): no loop runs on that thread,
\* so a new loop starts the work.
WorkerStart ==
    /\ worker = "started"
    /\ worker' = "running"
    /\ loopsOpen' = loopsOpen + 1
    /\ ranOn' = Append(ranOn, "worker_fresh")
    /\ UNCHANGED <<coreVars, keyVars, pc, callerLoop, work, future, outcome>>

\* The work completes on the worker; asyncio.run closes its loop and the
\* worker stores the result or the exception in the Future.
WorkerFinish ==
    /\ worker = "running"
    /\ work.kind # "hang"
    /\ loopsOpen' = loopsOpen - 1
    /\ future' = FutureSet(AsyncioRun(work, FALSE))
    /\ worker' = "waiting"
    /\ UNCHANGED <<coreVars, keyVars, pc, callerLoop, work, ranOn, outcome>>

\* result() wakes up once the Future is finished.
CallerWake ==
    /\ pc = "blocked"
    /\ future.state = "FINISHED"
    /\ outcome' = FutureResult(future)
    /\ pc' = "shutdown"
    /\ UNCHANGED <<coreVars, keyVars, callerLoop, work, worker, loopsOpen, ranOn, future>>

\* Leaving the with block: pool.shutdown(wait=True) joins the worker thread,
\* then the value is returned or the exception goes on to the caller.
PoolShutdown ==
    /\ pc = "shutdown"
    /\ worker = "waiting"
    /\ worker' = "exited"
    /\ pc' = "done"
    /\ UNCHANGED <<coreVars, keyVars, callerLoop, work, loopsOpen, ranOn, future, outcome>>

BridgeStep ==
    \/ BridgeBranch
    \/ DirectStart
    \/ DirectFinish
    \/ PoolSubmit
    \/ WorkerStart
    \/ WorkerFinish
    \/ CallerWake
    \/ PoolShutdown

\* ---------------------------------------------------------------- keyboard
\* The backend object the keyboard specification drives directly.
TheBackend == 1

\* str.lower() on the key names of the model.
Lower(key) ==
    CASE key = "A" -> "a"
      [] key = "Shift" -> "shift"
      [] OTHER -> key

\* _KEYCODE_MAP, the entries the model uses.
KeycodeMap ==
    [k \in {"a", "c", "command", "cmd", "shift"} |->
        CASE k = "a" -> 0
          [] k = "c" -> 8
          [] k \in {"command", "cmd"} -> 55
          [] OTHER -> 56]

\* _MODIFIER_FLAGS, as the bit each flag sets: 1 << 20 for command and cmd,
\* 1 << 17 for shift.
ModifierFlags ==
    [k \in {"command", "cmd", "shift"} |->
        IF k = "shift" THEN 17 ELSE 20]

\* The key names a caller passes.
KeyNames == {"a", "A", "cmd", "command", "Shift", "bogus"}

UnknownKey == Raise("ValueError", "Unknown key")

\* MacOSBackend._resolve_keycode: TRUE when it returns a code.
Resolves(key) == Lower(key) \in DOMAIN KeycodeMap

ResolveKeycode(key) == KeycodeMap[Lower(key)]

\* _MODIFIER_FLAGS.get(key.lower()): the set of bits of the flag, empty
\* when the key is no modifier.
ModFlag(key) ==
    IF Lower(key) \in DOMAIN ModifierFlags
    THEN {ModifierFlags[Lower(key)]}
    ELSE {}

\* A keyboard event as posted: the key code, down or up, and the flag mask
\* as the set of its bits.
KeyEvent(code, down, flags) ==
    [kind |-> "key", code |-> code, down |-> down, flags |-> flags]

\* A release loop that walks the keys in input order.
Reversed_InputOrder(keys) == keys

\* hotkey releases "for key in reversed(keys)".
Reversed(keys) == [i \in 1..Len(keys) |-> keys[Len(keys) + 1 - i]]

\* hotkey, first loop: resolve each key, accumulate the mask, create the
\* down events. err is set when a key does not resolve.
RECURSIVE HotkeyDown(_, _, _, _)
HotkeyDown(keys, i, flags, events) ==
    IF i > Len(keys)
    THEN [err |-> FALSE, flags |-> flags, events |-> events]
    ELSE IF ~Resolves(keys[i])
    THEN [err |-> TRUE, flags |-> flags, events |-> events]
    ELSE LET f == flags \cup ModFlag(keys[i])
         IN HotkeyDown(keys, i + 1, f,
                       Append(events, KeyEvent(ResolveKeycode(keys[i]), TRUE, f)))

\* hotkey, last loop: over the reversed keys, clear the key's flag and
\* post the up event.
RECURSIVE HotkeyUp(_, _, _, _)
HotkeyUp(rkeys, i, flags, events) ==
    IF i > Len(rkeys)
    THEN [err |-> FALSE, flags |-> flags, events |-> events]
    ELSE IF ~Resolves(rkeys[i])
    THEN [err |-> TRUE, flags |-> flags, events |-> events]
    ELSE LET f == flags \ ModFlag(rkeys[i])
         IN HotkeyUp(rkeys, i + 1, f,
                     Append(events, KeyEvent(ResolveKeycode(rkeys[i]), FALSE, f)))

\* A hotkey that posts each down event in the loop that creates it.
HotkeyRun_PostsAsCreated(keys) ==
    LET down == HotkeyDown(keys, 1, {}, <<>>)
        up == HotkeyUp(Reversed(keys), 1, down.flags, down.events)
    IN IF down.err THEN [posted |-> down.events, res |-> UnknownKey]
       ELSE [posted |-> up.events, res |-> Return(NoneV)]

\* MacOSBackend.hotkey on a ready backend: the events it posts and how it
\* ends. The down events are posted only after all of them were created.
HotkeyRun(keys) ==
    LET down == HotkeyDown(keys, 1, {}, <<>>)
        up == HotkeyUp(Reversed(keys), 1, down.flags, down.events)
    IN IF down.err THEN [posted |-> <<>>, res |-> UnknownKey]
       ELSE IF up.err THEN [posted |-> up.events, res |-> UnknownKey]
       ELSE [posted |-> up.events, res |-> Return(NoneV)]

\* MacOSBackend.key_down on a ready backend.
KeyDownRun(key) ==
    IF ~Resolves(key) THEN [posted |-> <<>>, res |-> UnknownKey]
    ELSE [posted |-> <<KeyEvent(ResolveKeycode(key), TRUE, ModFlag(key))>>,
          res |-> Return(NoneV)]

\* MacOSBackend.key_up on a ready backend.
KeyUpRun(key) ==
    IF ~Resolves(key) THEN [posted |-> <<>>, res |-> UnknownKey]
    ELSE [posted |-> <<KeyEvent(ResolveKeycode(key), FALSE, {})>>,
          res |-> Return(NoneV)]

\* A press that never releases the key.
PressKeyRun_DownOnly(key) == KeyDownRun(key)

\* MacOSBackend.press_key: await key_down, then await key_up.
PressKeyRun(key) ==
    LET d == KeyDownRun(key)
        u == KeyUpRun(key)
    IN IF d.res.kind = "raise" THEN d
       ELSE [posted |-> d.posted \o u.posted, res |-> u.res]

\* What a call of op(args) has right before it. For key_up(k) after
\* key_down(k): what that key_down posted and how it ended. For press_key(k)
\* after key_down(k), key_up(k): what the two calls posted together and how
\* the sequence ended, which is the first error or else the end of key_up.
\* For locate_all_on_screen and locateCenterOnScreen after locate_on_screen
\* with the same arguments and the same things missing: how that ended.
SeqBefore(op, args, env) ==
    IF op = "key_up" /\ blast.op = "key_down" /\ blast.args = args
    THEN Some([posted |-> posted, res |-> blast.res])
    ELSE IF /\ op = "press_key" /\ blast.op = "key_up" /\ blast.args = args
            /\ seqBefore # NoneV
    THEN Some([posted |-> seqBefore[1].posted \o posted,
               res |-> IF seqBefore[1].res.kind = "raise"
                       THEN seqBefore[1].res ELSE blast.res])
    ELSE IF /\ op \in {"locate_all_on_screen", "locateCenterOnScreen"}
            /\ blast.op = "locate_on_screen"
            /\ blast.args = args
            /\ blast.env = env
    THEN Some([posted |-> posted, res |-> blast.res])
    ELSE NoneV

\* env is what the call found around it: for a mouse operation where the
\* OS had the cursor, for a screen or locate operation what was missing.
BackendCall(op, args, res) ==
    [op |-> op, args |-> args, res |-> res, ready |-> EnsureReady(TheBackend),
     env |-> NoneV]

\* A keyboard coroutine of the backend, run directly: _ensure_ready first,
\* then the operation.
Keyboard(op, args, run) ==
    /\ IF ~EnsureReady(TheBackend)
       THEN /\ posted' = <<>>
            /\ blast' = BackendCall(op, args, BackendNotReady)
       ELSE /\ posted' = run.posted
            /\ blast' = BackendCall(op, args, run.res)
    /\ seqBefore' = SeqBefore(op, args, NoneV)
    /\ UNCHANGED <<coreVars, bridgeVars, scores>>

BackendKeyDown == \E k \in KeyNames : Keyboard("key_down", <<k>>, KeyDownRun(k))

BackendKeyUp == \E k \in KeyNames : Keyboard("key_up", <<k>>, KeyUpRun(k))

BackendPressKey == \E k \in KeyNames : Keyboard("press_key", <<k>>, PressKeyRun(k))

KeyLists == UNION {[1..n -> KeyNames] : n \in 0..MaxKeys}

BackendHotkey == \E keys \in KeyLists : Keyboard("hotkey", keys, HotkeyRun(keys))

\* An event type_text posts: a keyboard event created with key code 0 and
\* given the one character as its Unicode string.
TextEvent(ch, down) ==
    [kind |-> "text", code |-> 0, down |-> down, chars |-> ch]

\* asyncio.sleep of num / den seconds, kept in the order of the events
\* around it.
Sleep(num, den) == [kind |-> "sleep", num |-> num, den |-> den]

\* type_text, the loop "for ch in text" from the i-th character on.
RECURSIVE TypeTextLoop(_, _, _, _)
TypeTextLoop(text, i, interval, events) ==
    IF i > Len(text) THEN events
    ELSE LET typed == events \o <<TextEvent(text[i], TRUE),
                                   TextEvent(text[i], FALSE)>>
         IN TypeTextLoop(text, i + 1, interval,
                         IF interval > 0
                         THEN Append(typed, Sleep(interval, 10))
                         ELSE typed)

\* The texts a caller types, as sequences of characters.
TextInputs == UNION {[1..n -> {"h", "Z"}] : n \in 0..MaxText}

\* interval arguments, in tenths of a second.
Intervals == {-1, 0, 2}

BackendTypeText ==
    \E text \in TextInputs, interval \in Intervals :
        Keyboard("type_text", <<text, interval>>,
                 [posted |-> TypeTextLoop(text, 1, interval, <<>>),
                  res |-> Return(NoneV)])

\* ---------------------------------------------------------------- float arithmetic
\* Python's float is IEEE 754 binary64: every operation gives the exact
\* result rounded to 53 significant bits, ties to even. The magnitudes that
\* move_mouse computes with are held exactly, counted in units of
\* 2^-(FracLimbs * LimbBits), as the sequence of their digits to the base
\* 2^LimbBits, most significant first and without a leading zero digit. A
\* float is a record of its sign and its magnitude.
Precision == 53
LimbBits == 8
FracLimbs == 8
Base == 2 ^ LimbBits

Zeros(k) == [j \in 1..k |-> 0]

RECURSIVE Strip(_)
Strip(b) == IF b # <<>> /\ b[1] = 0 THEN Strip(Tail(b)) ELSE b

RECURSIVE LimbsOf(_)
LimbsOf(n) == IF n = 0 THEN <<>> ELSE Append(LimbsOf(n \div Base), n % Base)

\* The first k fractional digits of rem / den, for rem < den, and what is
\* left over.
RECURSIVE FracDiv(_, _, _)
FracDiv(rem, den, k) ==
    IF k = 0 THEN [limbs |-> <<>>, rem |-> rem]
    ELSE LET rest == FracDiv((Base * rem) % den, den, k - 1)
         IN [limbs |-> <<(Base * rem) \div den>> \o rest.limbs,
             rem |-> rest.rem]

\* b times the small number n, plus carry.
RECURSIVE MulCarry(_, _, _)
MulCarry(b, n, carry) ==
    IF b = <<>> THEN LimbsOf(carry)
    ELSE LET v == b[Len(b)] * n + carry
         IN Append(MulCarry(SubSeq(b, 1, Len(b) - 1), n, v \div Base), v % Base)

\* a + b + carry, both of one length.
RECURSIVE AddCarry(_, _, _)
AddCarry(a, b, carry) ==
    IF a = <<>> THEN LimbsOf(carry)
    ELSE LET v == a[Len(a)] + b[Len(b)] + carry
         IN Append(AddCarry(SubSeq(a, 1, Len(a) - 1), SubSeq(b, 1, Len(b) - 1),
                            v \div Base),
                   v % Base)

\* a - b - borrow for a >= b + borrow, both of one length.
RECURSIVE SubBorrow(_, _, _)
SubBorrow(a, b, borrow) ==
    IF a = <<>> THEN <<>>
    ELSE LET v == a[Len(a)] - b[Len(b)] - borrow
         IN Append(SubBorrow(SubSeq(a, 1, Len(a) - 1), SubSeq(b, 1, Len(b) - 1),
                             IF v < 0 THEN 1 ELSE 0),
                   IF v < 0 THEN v + Base ELSE v)

\* a + b and a - b (for a >= b) of two magnitudes.
Plus(a, b) ==
    LET n == IF Len(a) > Len(b) THEN Len(a) ELSE Len(b)
    IN Strip(AddCarry(Zeros(n - Len(a)) \o a, Zeros(n - Len(b)) \o b, 0))

Minus(a, b) == Strip(SubBorrow(a, Zeros(Len(a) - Len(b)) \o b, 0))

\* a < b, both without leading zeros.
RECURSIVE Less(_, _)
Less(a, b) ==
    IF Len(a) # Len(b) THEN Len(a) < Len(b)
    ELSE IF a = <<>> THEN FALSE
    ELSE IF a[1] # b[1] THEN a[1] < b[1]
    ELSE Less(Tail(a), Tail(b))

\* Bit j of b, bit 0 being the lowest.
Bit(b, j) == (b[Len(b) - (j \div LimbBits)] \div (2 ^ (j % LimbBits))) % 2

\* b with its lowest k bits cleared.
ClearLow(b, k) ==
    [m \in 1..Len(b) |->
        LET low == LimbBits * (Len(b) - m)     \* lowest bit of digit m
        IN IF low >= k THEN b[m]
           ELSE IF low + LimbBits <= k THEN 0
           ELSE (b[m] \div (2 ^ (k - low))) * (2 ^ (k - low))]

\* Rounding to nearest, ties to even: sticky says that the exact value has
\* more below the last bit of b.
Round(b, sticky) ==
    LET top == IF b = <<>> THEN 0
               ELSE CHOOSE n \in 1..LimbBits :
                        2 ^ (n - 1) <= b[1] /\ b[1] < 2 ^ n
        bits == IF b = <<>> THEN 0 ELSE LimbBits * (Len(b) - 1) + top
        k == bits - Precision              \* bits that do not fit
    IN IF k <= 0 THEN b
       ELSE LET rest == sticky \/ \E j \in 0..(k - 2) : Bit(b, j) = 1
                up == Bit(b, k - 1) = 1 /\ (rest \/ Bit(b, k) = 1)
                ulp == <<2 ^ (k % LimbBits)>> \o Zeros(k \div LimbBits)
            IN IF up THEN Plus(ClearLow(b, k), ulp) ELSE ClearLow(b, k)

\* num / den of two positive ints (true division, correctly rounded); also
\* the float that the decimal literal num/den denotes.
FDiv(num, den) ==
    LET frac == FracDiv(num % den, den, FracLimbs)
    IN [neg |-> FALSE,
        mag |-> Round(Strip(LimbsOf(num \div den) \o frac.limbs), frac.rem # 0)]

\* n * f for an int n.
FMulInt(n, f) ==
    [neg |-> (n < 0) # f.neg,
     mag |-> Round(Strip(MulCarry(f.mag, IF n < 0 THEN -n ELSE n, 0)), FALSE)]

\* f + g
FAdd(f, g) ==
    IF f.neg = g.neg THEN [neg |-> f.neg, mag |-> Round(Plus(f.mag, g.mag), FALSE)]
    ELSE IF Less(f.mag, g.mag)
    THEN [neg |-> g.neg, mag |-> Round(Minus(g.mag, f.mag), FALSE)]
    ELSE [neg |-> f.neg, mag |-> Round(Minus(f.mag, g.mag), FALSE)]

\* int(f): truncation toward zero.
Trunc(f) ==
    LET RECURSIVE ValueOf(_)
        ValueOf(b) ==
            IF b = <<>> THEN 0
            ELSE Base * ValueOf(SubSeq(b, 1, Len(b) - 1)) + b[Len(b)]
        whole == IF Len(f.mag) <= FracLimbs THEN 0
                 ELSE ValueOf(SubSeq(f.mag, 1, Len(f.mag) - FracLimbs))
    IN IF f.neg THEN -whole ELSE whole

\* move_mouse: int(start + (target - start) * (i / steps)) for one
\* coordinate, start >= 0.
Interpolate(start, target, i, steps) ==
    Trunc(FAdd([neg |-> FALSE, mag |-> Strip(LimbsOf(start) \o Zeros(FracLimbs))],
               FMulInt(target - start, FDiv(i, steps))))

\* move_mouse: max(int(duration * 100), 2), for a duration written as the
\* decimal hundredths / 100.
StepsOf(hundredths) ==
    LET n == Trunc(FMulInt(100, FDiv(hundredths, 100)))
    IN IF n > 2 THEN n ELSE 2

\* ---------------------------------------------------------------- mouse
\* _BUTTON_MAP: down event type, up event type, button number.
ButtonMap ==
    [b \in {"left", "right", "middle"} |->
        CASE b = "left" -> <<1, 2, 0>>
          [] b = "right" -> <<3, 4, 1>>
          [] OTHER -> <<25, 26, 2>>]

\* CGEventCreateMouseEvent(None, kCGEventMouseMoved, at, 0)
MoveEvent(at) == [kind |-> "move", at |-> at]

\* CGEventCreateMouseEvent(None, type, at, button) with integer field 1,
\* the click count, set to count.
ButtonEvent(type, at, button, count) ==
    [kind |-> "button", type |-> type, at |-> at, button |-> button,
     count |-> count]

\* CGEventCreateScrollWheelEvent(None, 0, 1, clicks)
ScrollEvent(clicks) == [kind |-> "scroll", clicks |-> clicks]

\* MacOSBackend.move_mouse on a ready backend; the duration is
\* hundredths / 100 and cursor is what get_mouse_position gives. With a
\* duration > 0 the loop "for i in range(1, steps + 1)" posts the move
\* event of step i and then sleeps duration / steps.
MoveMouseRun(x, y, hundredths, cursor) ==
    [posted |->
        IF hundredths <= 0 THEN <<MoveEvent(<<x, y>>)>>
        ELSE LET steps == StepsOf(hundredths)
             IN [j \in 1..(2 * steps) |->
                   IF j % 2 = 1
                   THEN MoveEvent(
                            <<Interpolate(cursor[1], x, (j + 1) \div 2, steps),
                              Interpolate(cursor[2], y, (j + 1) \div 2, steps)>>)
                   ELSE Sleep(hundredths, 100 * steps)],
     res |-> Return(NoneV)]

\* A click loop that suspends after every click.
SleepsAfter_Every(i, clicks, interval) == interval > 0

\* click: "if interval > 0 and i < clicks - 1"
SleepsAfter(i, clicks, interval) == interval > 0 /\ i < clicks - 1

\* click, the loop "for i in range(clicks)" from i on.
RECURSIVE ClickLoop(_, _, _, _, _, _)
ClickLoop(i, clicks, at, button, interval, events) ==
    IF i >= clicks THEN events
    ELSE LET b == ButtonMap[button]
             pair == events \o <<ButtonEvent(b[1], at, b[3], i + 1),
                                 ButtonEvent(b[2], at, b[3], i + 1)>>
         IN ClickLoop(i + 1, clicks, at, button, interval,
                      IF SleepsAfter(i, clicks, interval)
                      THEN Append(pair, Sleep(interval, 10))
                      ELSE pair)

\* MacOSBackend.click on a ready backend. x and y are Optional.
ClickRun(x, y, button, clicks, interval, cursor) ==
    LET given == x # NoneV /\ y # NoneV
        at == IF given THEN <<x[1], y[1]>> ELSE cursor
        moved == IF given THEN MoveMouseRun(x[1], y[1], 0, cursor).posted
                 ELSE <<>>
    IN [posted |-> ClickLoop(0, clicks, at, button, interval, moved),
        res |-> Return(NoneV)]

\* MacOSBackend.scroll on a ready backend.
ScrollRun(clicks, x, y, cursor) ==
    LET moved == IF x # NoneV /\ y # NoneV
                 THEN MoveMouseRun(x[1], y[1], 0, cursor).posted
                 ELSE <<>>
    IN [posted |-> Append(moved, ScrollEvent(clicks)), res |-> Return(NoneV)]

\* A mouse coroutine of the backend, run directly, with the OS cursor at
\* cursor: _ensure_ready first, then the operation.
Mouse(op, args, cursor, run) ==
    /\ IF ~EnsureReady(TheBackend)
       THEN /\ posted' = <<>>
            /\ blast' = BackendCall(op, args, BackendNotReady)
       ELSE /\ posted' = run.posted
            /\ blast' = [BackendCall(op, args, run.res)
                           EXCEPT !.env = Some(cursor)]
    /\ seqBefore' = NoneV
    /\ UNCHANGED <<coreVars, bridgeVars, scores>>

\* Where the cursor is, and where a caller clicks or scrolls.
Cursors == {<<0, 0>>, <<2, 7>>}
OptTargets == {<<NoneV, NoneV>>, <<Some(55), NoneV>>, <<Some(55), Some(7)>>}

MaxClicks == 3

\* MacOSBackend.move_mouse; the duration d is in hundredths of a second.
BackendMoveMouse ==
    \E t \in {<<0, 0>>, <<55, 7>>, <<57, 3>>}, d \in {-5, 0, 1, 3, 11},
       cursor \in Cursors :
        Mouse("move_mouse", <<t[1], t[2], d>>, cursor,
              MoveMouseRun(t[1], t[2], d, cursor))

BackendClick ==
    \E t \in OptTargets, b \in DOMAIN ButtonMap, n \in 0..MaxClicks,
       interval \in Intervals, cursor \in Cursors :
        Mouse("click", <<t[1], t[2], b, n, interval>>, cursor,
              ClickRun(t[1], t[2], b, n, interval, cursor))

BackendScroll ==
    \E n \in {-2, 3}, t \in OptTargets, cursor \in Cursors :
        Mouse("scroll", <<n, t[1], t[2]>>, cursor,
              ScrollRun(n, t[1], t[2], cursor))

\* MacOSBackend.get_mouse_position
BackendGetMousePosition ==
    \E cursor \in Cursors :
        Mouse("get_mouse_position", <<>>, cursor,
              [posted |-> <<>>, res |-> Return(cursor)])

\* ---------------------------------------------------------------- screen and locate
\* What a screen or locate call can find missing: nothing, the cv2 module,
\* the image that CGWindowListCreateImage should return, or the template
\* file.
Missing == {"nothing", "cv2", "capture", "template"}

\* MacOSBackend.take_screenshot on a ready backend.
TakeScreenshotRun(region, missing) ==
    [posted |-> <<>>,
     res |-> IF missing = "capture"
             THEN Raise("RuntimeError", "Failed to capture screenshot")
             ELSE Return(<<"screenshot", region>>)]

\* cv2.imread(image, IMREAD_GRAYSCALE): None for a file that cannot be
\* loaded, else the template, of which the model keeps the shape
\* (height, width).
Imread(image, missing) ==
    IF missing = "template" THEN NoneV ELSE Some(<<5, 7>>)

\* A match matrix holds float32 scores and a confidence is a Python float
\* with finer steps: in the model a float is an integer and the float32
\* values are the multiples of F32Step.
F32Step == 4
LocateConfidences == {8, 9, 11, 16}

\* The conversion of a float to float32: the nearest float32, ties to the
\* even one.
ToFloat32(c) ==
    LET lo == (c \div F32Step) * F32Step
        r == c - lo
    IN IF 2 * r < F32Step THEN lo
       ELSE IF 2 * r > F32Step THEN lo + F32Step
       ELSE IF (lo \div F32Step) % 2 = 0 THEN lo
       ELSE lo + F32Step

\* The positions (x, y) of a matrix, counted from 0, in raster order: row
\* by row, each row from left to right.
Raster(m) ==
    [j \in 1..(Len(m) * Len(m[1])) |->
        <<(j - 1) % Len(m[1]), (j - 1) \div Len(m[1])>>]

ScoreAt(m, pos) == m[pos[2] + 1][pos[1] + 1]

\* cv2.minMaxLoc: the largest score, as a Python float, and the first
\* position in raster order that has it.
MaxVal(m) ==
    LET all == {m[r][c] : r \in 1..Len(m), c \in 1..Len(m[1])}
    IN CHOOSE v \in all : \A w \in all : w <= v

MaxLoc(m) ==
    LET best == MaxVal(m)
    IN SelectSeq(Raster(m), LAMBDA pos : ScoreAt(m, pos) = best)[1]

\* A best score that does not count as a match when it is equal to the
\* confidence.
BelowConfidence_OrEqual(maxVal, c) == maxVal <= c

\* locate_on_screen: "if max_val < confidence", two Python floats.
BelowConfidence(maxVal, c) == maxVal < c

\* locate_all_on_screen: "result >= confidence", a float32 array against a
\* Python float: numpy compares in float32 and converts the confidence.
MeetsConfidence(score, c) == score >= ToFloat32(c)

\* Region(pos.x + ox, pos.y + oy, tw, th) for a template of shape
\* (th, tw), with "ox = region.left if region else 0" and oy likewise.
MatchRegion(pos, region, shape) ==
    <<pos[1] + (IF region # NoneV THEN region[1][1] ELSE 0),
      pos[2] + (IF region # NoneV THEN region[1][2] ELSE 0),
      shape[2], shape[1]>>

\* locate_on_screen and locate_all_on_screen up to the matching, after cv2
\* was imported and on a ready backend: the error they end with, or none.
LocateFailure(image, region, missing) ==
    IF TakeScreenshotRun(region, missing).res.kind = "raise"
    THEN Some(TakeScreenshotRun(region, missing).res)
    ELSE IF Imread(image, missing) = NoneV
    THEN Some(Raise("FileNotFoundError", "Could not load template image"))
    ELSE NoneV

\* MacOSBackend.locate_on_screen after the import of cv2, on a ready
\* backend, with the match matrix m.
LocateOnScreenRun(image, c, region, missing, m) ==
    [posted |-> <<>>,
     res |-> IF LocateFailure(image, region, missing) # NoneV
             THEN LocateFailure(image, region, missing)[1]
             ELSE IF BelowConfidence(MaxVal(m), c) THEN Return(NoneV)
             ELSE Return(Some(MatchRegion(MaxLoc(m), region,
                                          Imread(image, missing)[1])))]

\* MacOSBackend.locate_all_on_screen after the import of cv2, on a ready
\* backend, with the match matrix m.
LocateAllOnScreenRun(image, c, region, missing, m) ==
    [posted |-> <<>>,
     res |-> IF LocateFailure(image, region, missing) # NoneV
             THEN LocateFailure(image, region, missing)[1]
             ELSE LET hits == SelectSeq(Raster(m),
                                  LAMBDA pos : MeetsConfidence(ScoreAt(m, pos), c))
                  IN Return([j \in 1..Len(hits) |->
                               MatchRegion(hits[j], region,
                                           Imread(image, missing)[1])])]

\* A center taken as half of the far edge.
LocateCenter_HalfOfSum(loc) ==
    IF loc.kind = "raise" THEN loc
    ELSE IF loc.val = NoneV THEN Return(NoneV)
    ELSE LET r == loc.val[1]
         IN Return(Some(<<(r[1] + r[3]) \div 2, (r[2] + r[4]) \div 2>>))

\* locateCenterOnScreen of the public surface, given how its call of
\* locateOnScreen ended.
LocateCenter(loc) ==
    IF loc.kind = "raise" THEN loc
    ELSE IF loc.val = NoneV THEN Return(NoneV)
    ELSE LET r == loc.val[1]
         IN Return(Some(<<r[1] + r[3] \div 2, r[2] + r[4] \div 2>>))

\* A screen coroutine of the backend, run directly: _ensure_ready first.
Screen(op, args, missing, run) ==
    /\ posted' = <<>>
    /\ blast' = [BackendCall(op, args,
                             IF ~EnsureReady(TheBackend) THEN BackendNotReady
                             ELSE run.res)
                   EXCEPT !.env = Some(missing)]
    /\ seqBefore' = NoneV
    /\ UNCHANGED <<coreVars, bridgeVars, scores>>

\* A locate coroutine of the backend, run directly: the import of cv2
\* first, then take_screenshot with its _ensure_ready, then the matching.
Locate(op, args, missing, run) ==
    /\ posted' = <<>>
    /\ blast' = [BackendCall(op, args,
                     IF missing = "cv2"
                     THEN Raise("ImportError", "OpenCV is required for image location.")
                     ELSE IF ~EnsureReady(TheBackend) THEN BackendNotReady
                     ELSE run.res)
                   EXCEPT !.env = Some(missing)]
    /\ seqBefore' = SeqBefore(op, args, Some(missing))
    /\ UNCHANGED <<coreVars, bridgeVars, scores>>

\* MacOSBackend.get_screen_size, for a main display of 1440 by 900.
BackendGetScreenSize ==
    Screen("get_screen_size", <<>>, "nothing",
           [posted |-> <<>>, res |-> Return(<<1440, 900>>)])

BackendTakeScreenshot ==
    \E region \in Regions, missing \in {"nothing", "capture"} :
        Screen("take_screenshot", <<region>>, missing,
               TakeScreenshotRun(region, missing))

BackendLocateOnScreen ==
    \E c \in LocateConfidences, region \in Regions, missing \in Missing :
        Locate("locate_on_screen", <<"btn.png", c, region>>, missing,
               LocateOnScreenRun("btn.png", c, region, missing, scores))

BackendLocateAllOnScreen ==
    \E c \in LocateConfidences, region \in Regions, missing \in Missing :
        Locate("locate_all_on_screen", <<"btn.png", c, region>>, missing,
               LocateAllOnScreenRun("btn.png", c, region, missing, scores))

\* locateCenterOnScreen of the public surface over this backend; the
\* orchestrator in between passes arguments and outcome through.
locateCenterOnScreen ==
    \E c \in LocateConfidences, region \in Regions, missing \in Missing :
        Locate("locateCenterOnScreen", <<"btn.png", c, region>>, missing,
               [posted |-> <<>>,
                res |-> LocateCenter(
                    LocateOnScreenRun("btn.png", c, region, missing, scores).res)])

\* MacOSBackend.initialize
BackendInitialize ==
    \E quartzMissing \in BOOLEAN :
        /\ IF quartzMissing
           THEN UNCHANGED <<be_cg, be_initialized>>
           ELSE /\ be_cg' = [be_cg EXCEPT ![TheBackend] = TRUE]
                /\ be_initialized' = [be_initialized EXCEPT ![TheBackend] = TRUE]
        /\ blast' = BackendCall("initialize", <<>>,
                                InitializeOutcome(quartzMissing))
        /\ posted' = <<>>
        /\ seqBefore' = NoneV
        /\ UNCHANGED <<core_backend, core_initialized, created, calls, last,
                       bridgeVars, scores>>

\* MacOSBackend.cleanup
BackendCleanup ==
    /\ be_initialized' = [be_initialized EXCEPT ![TheBackend] = FALSE]
    /\ be_cg' = [be_cg EXCEPT ![TheBackend] = FALSE]
    /\ blast' = BackendCall("cleanup", <<>>, Return(NoneV))
    /\ posted' = <<>>
    /\ seqBefore' = NoneV
    /\ UNCHANGED <<core_backend, core_initialized, created, calls, last,
                   bridgeVars, scores>>

\* ---------------------------------------------------------------- specifications
CoreIdle ==
    /\ core_backend = 0
    /\ core_initialized = FALSE
    /\ created = 0
    /\ be_initialized = [b \in BackendIds |-> FALSE]
    /\ be_cg = [b \in BackendIds |-> FALSE]
    /\ calls = <<>>
    /\ last = [op |-> "new", args |-> <<>>, res |-> Return(NoneV),
               pre |-> [backend |-> 0, initialized |-> FALSE, created |-> 0]]

KeysIdle ==
    /\ posted = <<>>
    /\ blast = [op |-> "new", args |-> <<>>, res |-> Return(NoneV),
                ready |-> FALSE, env |-> NoneV]
    /\ seqBefore = NoneV
    /\ scores = <<<<8, 12>>>>

Init == CoreIdle /\ BridgeIdle /\ KeysIdle

\* The match matrices: up to MaxRows rows of one or two scores.
Matrices ==
    UNION {[1..r -> [1..c -> {8, 12}]] : r \in 1..MaxRows, c \in {1, 2}}

\* As Init, with any match matrix.
InitLocate ==
    /\ CoreIdle
    /\ BridgeIdle
    /\ posted = <<>>
    /\ blast = [op |-> "new", args |-> <<>>, res |-> Return(NoneV),
                ready |-> FALSE, env |-> NoneV]
    /\ seqBefore = NoneV
    /\ scores \in Matrices

DoInit ==
    \E p \in Platforms, f \in ImportFaults, lr \in BOOLEAN :
        CoreInit(p, f, lr)

DoCleanup == \E f \in CleanupFaults, lr \in BOOLEAN : CoreCleanup(f, lr)

CoreNext ==
    \/ DoInit
    \/ DoCleanup
    \/ get_screen_size
    \/ take_screenshot
    \/ get_mouse_position
    \/ move_mouse
    \/ click
    \/ scroll
    \/ press_key
    \/ key_down
    \/ key_up
    \/ type_text
    \/ hotkey
    \/ locate_on_screen
    \/ locate_all_on_screen

Next == CoreNext

Spec == Init /\ [][Next]_vars

BridgeNext == BridgeCall \/ BridgeStep

SpecBridge == Init /\ [][BridgeNext]_vars

KeysNext ==
    \/ BackendInitialize
    \/ BackendCleanup
    \/ BackendKeyDown
    \/ BackendKeyUp
    \/ BackendPressKey
    \/ BackendHotkey
    \/ BackendTypeText

\* One MacOSBackend, constructed directly and driven without the
\* orchestrator.
SpecKeys == Init /\ [][KeysNext]_vars

MouseNext ==
    \/ BackendInitialize
    \/ BackendCleanup
    \/ BackendGetMousePosition
    \/ BackendMoveMouse
    \/ BackendClick
    \/ BackendScroll

\* The same backend, its mouse operations.
SpecMouse == Init /\ [][MouseNext]_vars

LocateNext ==
    \/ BackendInitialize
    \/ BackendCleanup
    \/ BackendGetScreenSize
    \/ BackendTakeScreenshot
    \/ BackendLocateOnScreen
    \/ BackendLocateAllOnScreen
    \/ locateCenterOnScreen

\* The same backend, its screen and locate operations, for every match
\* matrix.
SpecLocate == InitLocate /\ [][LocateNext]_vars

\* The same backend with all its operations.
SpecBackend == Init /\ [][KeysNext \/ MouseNext \/ LocateNext]_vars

\* Every thread that can take a step eventually takes one.
SpecBridgeFair == SpecBridge /\ WF_vars(BridgeStep)
\* ---------------------------------------------------------------- orchestrator claims
\* The orchestrator state the last call started from was Ready.
WasReady == last.pre.initialized /\ last.pre.backend # 0

CoreUnchanged ==
    /\ core_backend = last.pre.backend
    /\ core_initialized = last.pre.initialized
    /\ created = last.pre.created

\* C1: an operation other than init and cleanup that is invoked while the
\* orchestrator is not Ready fails with the "not initialized" state error,
\* runs no backend coroutine and leaves the handle and the flag as they were.
C1_NotReadyIsStateError ==
    (last.op \in OpNames /\ ~WasReady) =>
        /\ last.res = StateError
        /\ calls = <<>>
        /\ CoreUnchanged

\* C1 witness: an operation called after a failed init(), which left a
\* backend handle behind, was refused.
C1_Witness ==
    /\ last.op = "click"
    /\ ~last.pre.initialized
    /\ last.pre.backend # 0
    /\ last.res = StateError

\* C2: the orchestrator's initialized flag is true exactly when its backend
\* handle is non-null and that backend's own initialized flag is true.
C2_FlagIffBackendInitialized ==
    core_initialized <=> (core_backend # 0 /\ be_initialized[core_backend])

\* C3: init() called while the orchestrator is Ready constructs no backend,
\* runs no backend initializer, changes neither handle nor flag and returns.
C3_InitWhenReadyIsNoOp ==
    (last.op = "init" /\ last.pre.initialized) =>
        /\ calls = <<>>
        /\ CoreUnchanged
        /\ core_initialized
        /\ last.res = Return(NoneV)

\* C3 witness: a second init() right after a successful one; one backend
\* has been constructed in all.
C3_Witness ==
    /\ last.op = "init"
    /\ last.pre.initialized
    /\ created = 1
    /\ core_backend = 1

\* C4: an init() that fails leaves the orchestrator as it was before the
\* call: flag false and no backend handle retained.
C4_FailedInitLeavesNothing ==
    (last.op = "init" /\ last.res.kind = "raise") =>
        /\ ~core_initialized
        /\ core_backend = 0

\* C5: cleanup() ends with the handle released and the flag false, also
\* when the backend's cleanup raised.
C5_CleanupAlwaysReleases ==
    (last.op = "cleanup" /\ last.res.kind = "raise") =>
        /\ core_backend = 0
        /\ ~core_initialized

\* C6: a cleanup() whose backend cleanup succeeds runs that backend's cleanup
\* exactly once and ends with handle null and flag false; a cleanup() with
\* no backend runs nothing, raises nothing and changes nothing.
C6_CleanupReleasesOnce ==
    /\ (last.op = "cleanup" /\ last.pre.backend # 0
            /\ last.res.kind = "return") =>
            /\ Len(calls) = 1
            /\ calls[1].b = last.pre.backend
            /\ calls[1].op = "cleanup"
            /\ core_backend = 0
            /\ ~core_initialized
    /\ (last.op = "cleanup" /\ last.pre.backend = 0) =>
            /\ calls = <<>>
            /\ last.res = Return(NoneV)
            /\ CoreUnchanged

\* C6 witness: cleanup() of a Ready orchestrator succeeded.
C6_Witness ==
    /\ last.op = "cleanup"
    /\ last.pre.initialized
    /\ last.pre.backend # 0
    /\ last.res.kind = "return"
    /\ Len(calls) = 1
    /\ core_backend = 0

\* C7: in the Ready state an operation runs exactly one backend coroutine,
\* the one of the same name on the held backend with the same arguments in
\* the same positions, gives back what that coroutine returned or raised,
\* and changes neither handle nor flag.
C7_ReadyDelegatesOnce ==
    (last.op \in OpNames /\ WasReady) =>
        /\ Len(calls) = 1
        /\ calls[1].b = last.pre.backend
        /\ calls[1].op = last.op
        /\ calls[1].args = last.args
        /\ last.res = calls[1].res
        /\ CoreUnchanged

\* C7 witness: a Ready move_mouse with x and y different returned.
C7_Witness ==
    /\ last.op = "move_mouse"
    /\ WasReady
    /\ last.args = <<10, 20, 1>>
    /\ last.res.kind = "return"
\* ---------------------------------------------------------------- bridge claims
\* C8: on both bridge paths the caller gets what the work produced: the
\* same exception (type and message) when it raised, the value as is when
\* it returned.
C8_BridgePropagatesUnchanged ==
    (pc = "done") =>
        /\ outcome.kind = work.kind
        /\ outcome.val = work.val
        /\ outcome.exc = work.exc

\* C8 witness: the worker-thread path has handed an exception of the work
\* to the caller.
C8_Witness ==
    /\ pc = "done"
    /\ callerLoop
    /\ worker = "exited"
    /\ work = Raise("ValueError", "Unknown key")
    /\ outcome.kind = "raise"

\* The safety part of C9.
C9_Safety ==
    /\ Len(ranOn) <= 1
    /\ loopsOpen \in {0, 1}
    /\ \A i \in 1..Len(ranOn) :
          ranOn[i] = (IF callerLoop THEN "worker_fresh" ELSE "caller_fresh")
    /\ (worker \in {"started", "running"}) => pc = "blocked"
    /\ (worker # "none") => callerLoop
    /\ (pc = "direct_running" \/ worker = "running") <=> loopsOpen = 1
    /\ (pc = "done") =>
          /\ Len(ranOn) = 1
          /\ loopsOpen = 0
          /\ worker \in {"none", "exited"}

\* C9: each bridge call runs its work exactly once on a loop created for
\* the call: on the calling thread when no loop runs there, else on one
\* worker thread while the caller blocks, never on the caller's running
\* loop; when the work terminates the call terminates, and then no worker
\* thread or loop of the call remains.
C9_RunsOnceAndTerminates ==
    /\ []C9_Safety
    /\ ((pc = "entered" /\ work.kind # "hang") ~> (pc = "done"))

\* C9 witness: a re-entrant call has finished; its work ran once on the
\* worker thread, which has exited.
C9_Witness ==
    /\ pc = "done"
    /\ callerLoop
    /\ ranOn = <<"worker_fresh">>
    /\ worker = "exited"
    /\ loopsOpen = 0
\* ---------------------------------------------------------------- keyboard claims
\* The number of posted events that press (down) or release key code c.
CountOf(c, down) ==
    Cardinality({i \in 1..Len(posted) :
                    posted[i].code = c /\ posted[i].down = down})

\* C10: hotkey(k1..kn) with recognized names on an initialized backend
\* posts exactly 2n keyboard events: the down events of k1..kn in input
\* order, then the up events of kn..k1; each key code is released as often
\* as it was pressed, so no key stays down.
C10_HotkeyDownsThenUpsReversed ==
    (/\ blast.op = "hotkey"
     /\ blast.ready
     /\ \A i \in 1..Len(blast.args) : Lower(blast.args[i]) \in DOMAIN KeycodeMap) =>
        LET keys == blast.args
            n == Len(keys)
        IN /\ blast.res = Return(NoneV)
           /\ Len(posted) = 2 * n
           /\ \A i \in 1..n :
                /\ posted[i].kind = "key"
                /\ posted[i].down
                /\ posted[i].code = KeycodeMap[Lower(keys[i])]
                /\ posted[n + i].kind = "key"
                /\ ~posted[n + i].down
                /\ posted[n + i].code = KeycodeMap[Lower(keys[n + 1 - i])]
           /\ \A i \in 1..n :
                CountOf(posted[i].code, TRUE) = CountOf(posted[i].code, FALSE)

\* C10 witness: a three-key hotkey with three different key codes has
\* posted its six events.
C10_Witness ==
    /\ blast.op = "hotkey"
    /\ blast.ready
    /\ blast.args = <<"cmd", "Shift", "a">>
    /\ blast.res = Return(NoneV)
    /\ Len(posted) = 6

\* ---------------------------------------------------------------- keyboard claims
KeyOps == {"press_key", "key_down", "key_up", "hotkey"}

\* The last backend call was given a key name that is not in the key table.
HasUnknownKey ==
    \E i \in 1..Len(blast.args) : Lower(blast.args[i]) \notin DOMAIN KeycodeMap

\* C11: on an initialized backend press_key, key_down, key_up and hotkey
\* with an unrecognized key name (for hotkey: at any position of the list)
\* fail with the value error and post no event at all, so no earlier key
\* of a hotkey is left down.
C11_UnknownKeyPostsNothing ==
    (blast.op \in KeyOps /\ blast.ready /\ HasUnknownKey) =>
        /\ blast.res = UnknownKey
        /\ posted = <<>>

\* C11 witness: a hotkey whose last member is unrecognized, after two
\* recognized ones, has failed.
C11_Witness ==
    /\ blast.op = "hotkey"
    /\ blast.ready
    /\ blast.args = <<"cmd", "a", "bogus">>
    /\ blast.res = UnknownKey

\* The positions of the key list whose keys are held when the j-th event of
\* a hotkey of n keys is posted: keys 1..j at the j-th down event, and at
\* the i-th up event, which releases key n + 1 - i, the keys before that one.
HeldAt(n, j) == IF j <= n THEN 1..j ELSE 1..(2 * n - j)

\* The union of the flags of the modifier keys among the held ones.
HeldMask(keys, j) == UNION {ModFlag(keys[m]) : m \in HeldAt(Len(keys), j)}

OneDownOneUp(key, ready) ==
    IF ~ready THEN [posted |-> <<>>, res |-> BackendNotReady]
    ELSE IF Lower(key) \notin DOMAIN KeycodeMap
    THEN [posted |-> <<>>, res |-> UnknownKey]
    ELSE [posted |-> <<KeyEvent(KeycodeMap[Lower(key)], TRUE,
                                IF Lower(key) \in DOMAIN ModifierFlags
                                THEN {ModifierFlags[Lower(key)]} ELSE {}),
                       KeyEvent(KeycodeMap[Lower(key)], FALSE, {})>>,
          res |-> Return(NoneV)]

EventsOfKind(k) == SelectSeq(posted, LAMBDA e : e.kind = k)

\* What the claim says type_text posts from the i-th character on: a down
\* and an up event with the character, and a suspension before the next
\* character when the interval is positive.
RECURSIVE TypedAsClaimed(_, _, _)
TypedAsClaimed(text, i, interval) ==
    IF i > Len(text) THEN <<>>
    ELSE <<TextEvent(text[i], TRUE), TextEvent(text[i], FALSE)>>
         \o (IF interval > 0 /\ i < Len(text) THEN <<Sleep(interval, 10)>> ELSE <<>>)
         \o TypedAsClaimed(text, i + 1, interval)

\* C20: type_text of n characters on an initialized backend succeeds and
\* posts exactly 2n keyboard events, for each character in order a down and
\* an up event with that character; with a positive interval it suspends
\* between consecutive characters, n - 1 times and not after the last
\* character, and with an interval <= 0 it never suspends.
C20_TypeTextSuspendsBetween ==
    (blast.op = "type_text" /\ blast.ready) =>
        LET text == blast.args[1]
            interval == blast.args[2]
            n == Len(text)
        IN /\ blast.res = Return(NoneV)
           /\ Len(EventsOfKind("text")) = 2 * n
           /\ Len(EventsOfKind("sleep"))
                = (IF interval > 0 /\ n > 0 THEN n - 1 ELSE 0)
           /\ posted = TypedAsClaimed(text, 1, interval)

\* ---------------------------------------------------------------- mouse claims
\* What the claim says click posts for the clicks k..n: a down and at once
\* an up event of the button, both with click count k and at the point at,
\* and a suspension before the next pair when the interval is positive.
RECURSIVE ClickedAsClaimed(_, _, _, _, _)
ClickedAsClaimed(k, n, at, button, interval) ==
    IF k > n THEN <<>>
    ELSE <<ButtonEvent(ButtonMap[button][1], at, ButtonMap[button][3], k),
           ButtonEvent(ButtonMap[button][2], at, ButtonMap[button][3], k)>>
         \o (IF interval > 0 /\ k < n THEN <<Sleep(interval, 10)>> ELSE <<>>)
         \o ClickedAsClaimed(k + 1, n, at, button, interval)

\* The events of a click after the move to the given coordinates.
AfterMove ==
    IF posted # <<>> /\ posted[1].kind = "move" THEN Tail(posted) ELSE posted

\* C13: click with clicks = n >= 1 on an initialized backend posts, for
\* k = 1..n in order, a down event and at once an up event of the given
\* button, both with click count k and at the same point; with a positive
\* interval it suspends exactly n - 1 times, once between consecutive
\* pairs and not after the last, and with an interval <= 0 it never
\* suspends.
C13_ClickPairsAndGaps ==
    (blast.op = "click" /\ blast.ready /\ blast.args[4] >= 1) =>
        LET x == blast.args[1]
            y == blast.args[2]
            n == blast.args[4]
            interval == blast.args[5]
            at == IF x # NoneV /\ y # NoneV THEN <<x[1], y[1]>>
                  ELSE blast.env[1]
        IN /\ blast.res = Return(NoneV)
           /\ AfterMove = ClickedAsClaimed(1, n, at, blast.args[3], interval)
           /\ Len(EventsOfKind("button")) = 2 * n
           /\ Len(EventsOfKind("sleep")) = (IF interval > 0 THEN n - 1 ELSE 0)
           /\ posted[Len(posted)].kind = "button"

\* C13 witness: a triple click with a positive interval has posted its
\* three pairs and suspended twice.
C13_Witness ==
    /\ blast.op = "click"
    /\ blast.ready
    /\ blast.args[4] = 3
    /\ blast.args[5] > 0
    /\ Len(EventsOfKind("button")) = 6
    /\ Len(EventsOfKind("sleep")) = 2

\* start + (target - start) * k / n in exact arithmetic, truncated toward
\* zero.
ExactStep(start, target, k, n) ==
    LET num == start * n + (target - start) * k
    IN IF num >= 0 THEN num \div n ELSE -((-num) \div n)

Between(v, a, b) == (a <= v /\ v <= b) \/ (b <= v /\ v <= a)

\* The move events of a paced move and the suspensions alternate, a move
\* event first, and every suspension is one of num / den seconds.
Paced(num, den) ==
    \A j \in 1..Len(posted) :
        /\ j % 2 = 1 => posted[j].kind = "move"
        /\ j % 2 = 0 => posted[j] = Sleep(num, den)

\* C18: move_mouse to (x, y) on an initialized backend with duration <= 0
\* posts exactly one move event, at (x, y), and never suspends. With
\* duration > 0 it posts exactly N = max(floor(duration * 100), 2) move
\* events, the k-th at start + (target - start) * k / N truncated to
\* integers, start being the cursor position read once at the beginning;
\* the last event is at (x, y), every event is inside the rectangle spanned
\* by start and target, and suspensions of duration / N separate
\* consecutive steps.
C18_MoveInterpolatesLinearly ==
    (blast.op = "move_mouse" /\ blast.ready) =>
        LET x == blast.args[1]
            y == blast.args[2]
            hundredths == blast.args[3]
            start == blast.env[1]
            n == IF hundredths > 2 THEN hundredths ELSE 2
            moves == EventsOfKind("move")
        IN /\ blast.res = Return(NoneV)
           /\ hundredths <= 0 => posted = <<MoveEvent(<<x, y>>)>>
           /\ hundredths > 0 =>
                /\ Len(moves) = n
                /\ \A k \in 1..Len(moves) :
                     /\ moves[k].at = <<ExactStep(start[1], x, k, n),
                                        ExactStep(start[2], y, k, n)>>
                     /\ Between(moves[k].at[1], start[1], x)
                     /\ Between(moves[k].at[2], start[2], y)
                /\ moves[Len(moves)].at = <<x, y>>
                /\ Paced(hundredths, 100 * n)

\* ---------------------------------------------------------------- locate claims
\* The positions (x, y) of the match matrix, counted from 0.
Positions ==
    {<<x, y>> : x \in 0..(Len(scores[1]) - 1), y \in 0..(Len(scores) - 1)}

\* The best match score on the screen.
BestScore ==
    CHOOSE v \in {ScoreAt(scores, pos) : pos \in Positions} :
        \A pos \in Positions : ScoreAt(scores, pos) <= v

\* The region of the claims for a match at pos: the position plus the
\* origin of the search region, (0, 0) without one, and the template's
\* width and height.
RegionAt(pos, region) ==
    <<pos[1] + (IF region = NoneV THEN 0 ELSE region[1][1]),
      pos[2] + (IF region = NoneV THEN 0 ELSE region[1][2]),
      Imread("btn.png", "nothing")[1][2],
      Imread("btn.png", "nothing")[1][1]>>

\* C14: locate_on_screen with confidence c returns None exactly when the
\* best match score is below c, and otherwise the Region whose top-left
\* corner is a best-match position plus the origin of the search region
\* and whose width and height are the template's.
C14_LocateBestOrNone ==
    (blast.op = "locate_on_screen" /\ blast.res.kind = "return") =>
        /\ (blast.res.val = NoneV) <=> (BestScore < blast.args[2])
        /\ blast.res.val # NoneV =>
              \E pos \in Positions :
                  /\ ScoreAt(scores, pos) = BestScore
                  /\ blast.res.val = Some(RegionAt(pos, blast.args[3]))

\* C14 witness: a match in the second row and second column of the matrix,
\* found within a search region.
C14_Witness ==
    /\ blast.op = "locate_on_screen"
    /\ blast.res = Return(Some(<<6, 7, 7, 5>>))
    /\ ScoreAt(scores, <<0, 0>>) < BestScore

\* C15: locate_all_on_screen returns exactly one Region per position whose
\* score is >= c and none for the others, in row-major order, each offset
\* by the origin of the search region, no two with the same top-left
\* corner; the list is non-empty exactly when locate_on_screen with the
\* same inputs returns a Region, and that Region is in the list.
C15_LocateAllMeetsConfidence ==
    (blast.op = "locate_all_on_screen" /\ blast.res.kind = "return") =>
        LET found == blast.res.val
            hits == SelectSeq(Raster(scores),
                              LAMBDA pos : ScoreAt(scores, pos) >= blast.args[2])
        IN /\ found = [j \in 1..Len(hits) |-> RegionAt(hits[j], blast.args[3])]
           /\ \A i, j \in 1..Len(found) :
                 i # j => <<found[i][1], found[i][2]>> # <<found[j][1], found[j][2]>>
           /\ seqBefore # NoneV =>
                 /\ (found # <<>>) <=> (seqBefore[1].res.val # NoneV)
                 /\ seqBefore[1].res.val # NoneV =>
                       \E j \in 1..Len(found) : found[j] = seqBefore[1].res.val[1]

\* C16: for every Region r that locate_on_screen returns,
\* locateCenterOnScreen with the same arguments returns the Point
\* (r.left + r.width \div 2, r.top + r.height \div 2), and it returns None
\* exactly when locate_on_screen returns None.
C16_CenterOfLocated ==
    (blast.op = "locateCenterOnScreen" /\ seqBefore # NoneV) =>
        LET loc == seqBefore[1].res
        IN /\ (loc.kind = "return" /\ loc.val # NoneV) =>
                 blast.res = Return(Some(<<loc.val[1][1] + loc.val[1][3] \div 2,
                                           loc.val[1][2] + loc.val[1][4] \div 2>>))
           /\ (blast.res = Return(NoneV)) <=> (loc = Return(NoneV))

\* C16 witness: the center of a region found right before by
\* locate_on_screen with the same arguments.
C16_Witness ==
    /\ blast.op = "locateCenterOnScreen"
    /\ seqBefore # NoneV
    /\ seqBefore[1].res = Return(Some(<<6, 7, 7, 5>>))
    /\ blast.res = Return(Some(<<9, 9>>))

\* ---------------------------------------------------------------- backend state claims
\* The screen, mouse, keyboard and locate operations of the backend.
BackendOps ==
    {"get_screen_size", "take_screenshot", "get_mouse_position", "move_mouse",
     "click", "scroll", "press_key", "key_down", "key_up", "type_text",
     "hotkey", "locate_on_screen", "locate_all_on_screen"}

\* C17: every screen, mouse, keyboard and locate operation of the backend
\* that is invoked while the backend is uninitialized, before initialize or
\* after cleanup, fails with the state error and posts no event, also when
\* its key name is unrecognized; invoked on a backend that initialize made
\* ready (again), it does not fail with the state error.
C17_UninitializedIsStateError ==
    blast.op \in BackendOps =>
        /\ ~blast.ready => (blast.res = BackendNotReady /\ posted = <<>>)
        /\ blast.ready => blast.res # BackendNotReady
====
